---- MODULE Spec2Model ----
(***************************************************************************)
(* python-jss: the server session facade (JSS.get/post/put/delete), the    *)
(* object factory (JSSObjectFactory.get_object, _build_jss_object_list)    *)
(* and the QuerySet collection, as a state machine.                        *)
(*                                                                         *)
(* A call of the factory or of a primitive runs until it raises, returns   *)
(* or blocks on an HTTP request; the server's response is an input of the  *)
(* environment and resumes the call.  Strings are sequences of pieces      *)
(* (URL fragments, tags, "&"), XML is a tree of elements.                  *)
(***************************************************************************)
EXTENDS Integers, Sequences, FiniteSets

VARIABLES
    pc,           \* "idle" | "wait" (blocked in session.get/post/put/delete) | "done"
    call,         \* the entry point called and its arguments
    cont,         \* what resumes when the response arrives
    http,         \* the HTTP round trips of the call, in order
    result,       \* what the call returned or raised
    subset_obj,   \* the caller's subset argument object (a list is mutated in place)
    objs,         \* the resource objects: class, id, name, cache marker
    qs,           \* the QuerySet's members (references into objs), in list order
    contained_class, \* QuerySet.contained_class
    last          \* the last QuerySet operation and its outcome

vars == <<pc, call, cont, http, result, subset_obj, objs, qs, contained_class, last>>
factory_vars == <<pc, call, cont, http, result, subset_obj>>
queryset_vars == <<objs, qs, contained_class, last>>

----------------------------------------------------------------------------
(* Bounds of the model *)

MaxItems == 2     \* children of a response root (or of its container)
MaxStr == 3       \* pieces of a subset given as a string
MaxList == 2      \* tags of a subset given as a list
NObj == 5         \* resource objects in the pool
MaxLen == 3       \* members given to the QuerySet constructor
MaxMembers == 3   \* members a QuerySet grows to by list mutations

----------------------------------------------------------------------------
(* Helpers *)

Min(S) == CHOOSE x \in S : \A y \in S : x <= y
Max(S) == CHOOSE x \in S : \A y \in S : x >= y
SeqsUpTo(S, n) == UNION {[1..k -> S] : k \in 0..n}

----------------------------------------------------------------------------
(* XML: xml.etree.ElementTree elements *)

El(tag, text, kids) == [tag |-> tag, text |-> text, kids |-> kids]
NoneEl == El("#None", "", <<>>)      \* Python None where an Element may stand

\* Element.find(tag): the first direct child with that tag, or None
Find(e, tag) ==
    LET hits == {i \in 1..Len(e.kids) : e.kids[i].tag = tag}
    IN IF hits = {} THEN NoneEl ELSE e.kids[Min(hits)]

\* The elements of a document in document order (the order of its text)
RECURSIVE PreOrder(_), PreOrderSeq(_)
PreOrder(e) == <<e>> \o PreOrderSeq(e.kids)
PreOrderSeq(s) == IF s = <<>> THEN <<>> ELSE PreOrder(Head(s)) \o PreOrderSeq(Tail(s))

\* ElementTree.tostring(data): the element's text, tags in document order
RECURSIVE tostring(_), tostringSeq(_)
tostring(e) == <<"<", e.tag, ">", e.text>> \o tostringSeq(e.kids) \o <<"</", e.tag, ">">>
tostringSeq(s) == IF s = <<>> THEN <<>> ELSE tostring(Head(s)) \o tostringSeq(Tail(s))

\* Decimal numerals: "%s" % n, int(text), and the regular expression [0-9]+
NumStr == <<"1", "2", "3">>
IsDigits(text) == text = "0" \/ \E n \in 1..Len(NumStr) : NumStr[n] = text
ToInt(text) == IF text = "0" THEN 0 ELSE CHOOSE n \in 1..Len(NumStr) : NumStr[n] = text
IdStr(n) == NumStr[n]

\* The documents the server may send
Item1 == El("computer", "", <<El("id", "1", <<>>), El("name", "a", <<>>)>>)
Item2 == El("computer", "", <<El("id", "2", <<>>), El("size", "1", <<>>), El("id", "x", <<>>)>>)
SizeEl == El("size", "2", <<>>)
Items == {Item1, Item2, SizeEl}
ItemSeqs == SeqsUpTo(Items, MaxItems)
Root(kids) == El("root", "", kids)
Roots ==
    {Root(s) : s \in ItemSeqs}
    \cup {Root(<<El("users", "", s)>>) : s \in ItemSeqs}
    \cup {Root(<<SizeEl, El("users", "", s)>>) : s \in ItemSeqs}

\* A response body: the text of a document, well-formed or cut short
Body(wellformed, root) == [wellformed |-> wellformed, root |-> root]
NoBody == Body(FALSE, NoneEl)
Bodies ==
    {Body(TRUE, r) : r \in Roots}
    \cup {Body(FALSE, Root(<<>>)), Body(FALSE, Root(<<Item1>>))}
SmallBodies ==
    {Body(TRUE, Root(<<>>)), Body(TRUE, Root(<<SizeEl>>)), Body(TRUE, Root(<<Item1>>)),
     Body(FALSE, Root(<<>>))}
PostBodies ==
    {Body(TRUE, Root(<<>>)), Body(TRUE, Root(<<Item1>>)), Body(TRUE, Root(<<Item2, Item1>>)),
     Body(TRUE, Root(<<El("id", "x", <<>>), El("id", "3", <<>>), El("id", "1", <<>>)>>)),
     Body(FALSE, Root(<<Item2>>)), Body(FALSE, Root(<<>>))}
Statuses == {200, 399, 400, 404}

----------------------------------------------------------------------------
(* Resource descriptors: the class attributes the factory reads *)

ObjClass(name, url, container, l, g, p) ==
    [name |-> name, url |-> url, container |-> container,
     can_list |-> l, can_get |-> g, can_post |-> p]
Classes ==
    {ObjClass("Computer", "/computers", "", l, g, p) : l, g, p \in BOOLEAN}
    \cup {ObjClass("Account", "/accounts", "users", l, g, p) : l, g, p \in BOOLEAN}

\* obj_class.get_url(data)
get_url(cls, data) ==
    CASE data.type = "NoneType" -> <<cls.url>>
      [] data.type = "int" -> <<cls.url, "/id/", IdStr(data.ival)>>
      [] data.type = "str" -> <<cls.url, "/name/", data.sval>>
      [] OTHER -> <<cls.url>>

\* obj_class.get_post_url()
get_post_url(cls) == <<cls.url, "/id/", "0">>

----------------------------------------------------------------------------
(* The arguments of get_object *)

Data(type, ival, sval, elem) == [type |-> type, ival |-> ival, sval |-> sval, elem |-> elem]
NoneData == Data("NoneType", 0, "", NoneEl)
IntData(n) == Data("int", n, "", NoneEl)
StrData(s) == Data("str", 0, s, NoneEl)
ElementData(e) == Data("Element", 0, "", e)
OtherData == Data("other", 0, "", NoneEl)

Payload == El("computer", "", <<El("general", "", <<El("name", "a", <<>>)>>)>>)
FetchData == {IntData(1), IntData(2), StrData("Mac Pro")}
DataValues == {NoneData, ElementData(Payload), OtherData} \cup FetchData

\* A subset argument: None, a list of tags, a string, or a value of another type
Subset(type, truthy, tags, str) == [type |-> type, truthy |-> truthy, tags |-> tags, str |-> str]
NoneSubset == Subset("NoneType", FALSE, <<>>, <<>>)
ListSubset(tags) == Subset("list", tags # <<>>, tags, <<>>)
StrSubset(s) == Subset("str", s # <<>>, <<>>, s)
OtherSubset(truthy) == Subset("other", truthy, <<>>, <<>>)

Tags == {<<"general">>, <<"purchasing">>, <<"Basic">>}
Pieces == {"general", "purchasing", "&"}
Subsets ==
    {NoneSubset, OtherSubset(TRUE), OtherSubset(FALSE)}
    \cup {ListSubset(t) : t \in SeqsUpTo(Tags, MaxList)}
    \cup {StrSubset(s) : s \in SeqsUpTo(Pieces, MaxStr)}
SmallSubsets ==
    {NoneSubset, OtherSubset(TRUE), ListSubset(<<<<"Basic">>>>), StrSubset(<<"basic">>),
     ListSubset(<<<<"purchasing">>>>), StrSubset(<<"general", "&", "purchasing">>)}

----------------------------------------------------------------------------
(* Strings: subset.split("&"), "&".join(subset), str.upper(), urllib.quote *)

\* s.split("&"): the fields between the separators, empty fields kept
RECURSIVE Split(_)
Split(s) ==
    LET seps == {i \in 1..Len(s) : s[i] = "&"}
    IN IF seps = {} THEN <<s>>
       ELSE <<SubSeq(s, 1, Min(seps) - 1)>> \o Split(SubSeq(s, Min(seps) + 1, Len(s)))

\* "&".join(tags)
RECURSIVE Join(_)
Join(tags) ==
    IF tags = <<>> THEN <<>>
    ELSE IF Len(tags) = 1 THEN tags[1]
    ELSE tags[1] \o <<"&">> \o Join(Tail(tags))

UpperPiece(p) ==
    CASE p = "general" -> "GENERAL"
      [] p = "purchasing" -> "PURCHASING"
      [] p \in {"Basic", "basic", "BASIC"} -> "BASIC"
      [] OTHER -> p
Upper(tag) == [i \in 1..Len(tag) |-> UpperPiece(tag[i])]

\* urllib.quote(piece): letters, digits, "_.-/" are kept, the rest is %XX
QuotePiece(p) ==
    CASE p = "&" -> "%26"
      [] p = "Mac Pro" -> "Mac%20Pro"
      [] OTHER -> p
Quote(path) == [i \in 1..Len(path) |-> QuotePiece(path[i])]

----------------------------------------------------------------------------
(* The facade: JSS._url and the four primitives *)

BaseUrl == <<"https://jss.example:8443", "/JSSResource">>      \* JSS._url

Request(verb, path, url, data) ==
    [verb |-> verb, path |-> path, url |-> url, data |-> data, status |-> 0, body |-> NoBody]

\* JSS.get: request_url = _url + quote(url_path); session.get(request_url)
GetRequest(path) == Request("GET", path, BaseUrl \o Quote(path), <<>>)
\* JSS.post: request_url = _url + url_path; session.post(request_url, data=tostring(data))
PostRequest(path, data) == Request("POST", path, BaseUrl \o path, tostring(data))
\* JSS.put
PutRequest(path, data) == Request("PUT", path, BaseUrl \o path, tostring(data))
\* JSS.delete
DeleteRequest(path) == Request("DELETE", path, BaseUrl \o path, <<>>)

\* What a call returns or raises
Res(kind, exc, status, body, cls, root, items) ==
    [kind |-> kind, exc |-> exc, status |-> status, body |-> body,
     cls |-> cls, root |-> root, items |-> items]
NoResult == Res("none", "", 0, NoBody, "", NoneEl, <<>>)
Raise(exc, status, body) == Res("raise", exc, status, body, "", NoneEl, <<>>)
ReturnNone == Res("None", "", 0, NoBody, "", NoneEl, <<>>)
ReturnTree(root) == Res("tree", "", 0, NoBody, "", root, <<>>)
\* obj_class(self.jss, xmldata)
ReturnObject(cls, root) == Res("object", "", 0, NoBody, cls.name, root, <<>>)
\* JSSObjectList(self, obj_class, objects)
JSSObjectList(cls, objects) == Res("list", "", 0, NoBody, cls.name, NoneEl, objects)

\* response.status_code >= 400
IsError_gt(status) == status > 400
IsError(status) == status >= 400

\* tools.error_handler(exception_cls, response): raises exception_cls
error_handler(exception_cls, status) == Raise(exception_cls, status, NoBody)

\* JSS.get after the response: error, parse, return the tree
get(status, body) ==
    IF IsError(status) THEN error_handler("JSSGetError", status)
    ELSE IF ~body.wellformed THEN Raise("JSSGetError", 0, body)
    ELSE ReturnTree(body.root)

\* re.search(r"<id>([0-9]+)</id>", jss_results): the matches, in the order of the text
IdMatches(body) ==
    SelectSeq(PreOrder(body.root),
              LAMBDA e : e.tag = "id" /\ e.kids = <<>> /\ IsDigits(e.text))
SearchId_none(body) == -1
SearchId(body) == IF IdMatches(body) = <<>> THEN -1 ELSE ToInt(IdMatches(body)[1].text)

----------------------------------------------------------------------------
(* The factory: JSSObjectFactory.get_object *)

\* subset normalisation
Norm(raises, truthy, tags) == [raises |-> raises, truthy |-> truthy, tags |-> tags]
NormalizeSubset(subset) ==
    IF ~subset.truthy THEN Norm(FALSE, FALSE, <<>>)
    ELSE IF subset.type = "list" THEN Norm(FALSE, TRUE, subset.tags)
    ELSE IF subset.type = "str" THEN Norm(FALSE, TRUE, Split(subset.str))
    ELSE Norm(TRUE, FALSE, <<>>)

\* The verb checks of the three paths
ListAllowed_list(cls) == cls.can_list
ListAllowed(cls) == cls.can_list /\ cls.can_get
SingleAllowed(cls) == cls.can_get
FetchAllowed(cls) == cls.can_get
CreateAllowed_any(cls) == TRUE
CreateAllowed(cls) == cls.can_post

\* the "/subset/basic" shortcut of a listing
IsBasic(cls, n) ==
    n.truthy /\ Len(n.tags) = 1 /\ Upper(n.tags[1]) = <<"BASIC">> /\ cls.name = "Computer"

\* if not "general" in subset: subset.append("general")
ForceGeneral_always(tags) == Append(tags, <<"general">>)
ForceGeneral(tags) ==
    IF \E i \in 1..Len(tags) : tags[i] = <<"general">> THEN tags
    ELSE Append(tags, <<"general">>)

\* url += "/subset/%s" % "&".join(subset)
SubsetUrl(url, tags) == url \o <<"/subset/">> \o Join(tags)

\* A step of the factory: it raises, or it blocks on a request
Step(kind, exc, req, next, tags) ==
    [kind |-> kind, exc |-> exc, req |-> req, next |-> next, tags |-> tags]
RaiseStep(exc, tags) == Step("raise", exc, GetRequest(<<>>), "", tags)
RequestStep(req, next, tags) == Step("request", "", req, next, tags)

\* The path the type of data selects: data is None, isinstance(data,
\* (basestring, int)), isinstance(data, ElementTree.Element), else
PathOf_lenient(data) ==
    CASE data.type = "NoneType" -> "list"
      [] data.type = "Element" -> "create"
      [] OTHER -> "fetch"
PathOf(data) ==
    CASE data.type = "NoneType" -> "list"
      [] data.type \in {"str", "int"} -> "fetch"
      [] data.type = "Element" -> "create"
      [] OTHER -> "invalid"

Dispatch(cls, data, n) ==
    IF PathOf(data) = "list" THEN
        IF ListAllowed(cls) THEN
            RequestStep(GetRequest(IF IsBasic(cls, n)
                                   THEN get_url(cls, data) \o <<"/subset/basic">>
                                   ELSE get_url(cls, data)), "list", n.tags)
        ELSE IF SingleAllowed(cls) THEN
            RequestStep(GetRequest(get_url(cls, data)), "single", n.tags)
        ELSE RaiseStep("JSSMethodNotAllowedError", n.tags)
    ELSE IF PathOf(data) = "fetch" THEN
        IF FetchAllowed(cls) THEN
            IF n.truthy THEN
                RequestStep(GetRequest(SubsetUrl(get_url(cls, data), ForceGeneral(n.tags))),
                            "fetch", ForceGeneral(n.tags))
            ELSE RequestStep(GetRequest(get_url(cls, data)), "fetch", n.tags)
        ELSE RaiseStep("JSSMethodNotAllowedError", n.tags)
    ELSE IF PathOf(data) = "create" THEN
        IF CreateAllowed(cls) THEN
            RequestStep(PostRequest(get_post_url(cls), data.elem), "post", n.tags)
        ELSE RaiseStep("JSSMethodNotAllowedError", n.tags)
    ELSE RaiseStep("ValueError", n.tags)

get_object(cls, data, subset) ==
    IF NormalizeSubset(subset).raises THEN RaiseStep("TypeError", <<>>)
    ELSE Dispatch(cls, data, NormalizeSubset(subset))

\* xmldata.find("size") is not None
IsMultiple_deep(xmldata) == \E i \in 2..Len(PreOrder(xmldata)) : PreOrder(xmldata)[i].tag = "size"
IsMultiple(xmldata) == Find(xmldata, "size") # NoneEl

\* _build_jss_object_list: the children that are not "size"
response_objects_all(response) == response.kids
response_objects(response) == SelectSeq(response.kids, LAMBDA item : item.tag # "size")

\* {i.tag: i.text for i in response_object}: a later child replaces an earlier one
ListData(response_object) ==
    [t \in {response_object.kids[i].tag : i \in 1..Len(response_object.kids)} |->
        response_object.kids[Max({i \in 1..Len(response_object.kids) :
                                     response_object.kids[i].tag = t})].text]

_build_jss_object_list(response, cls) ==
    JSSObjectList(cls, [i \in 1..Len(response_objects(response)) |->
                           ListData(response_objects(response)[i])])

\* result.find(obj_class.container), when the class declares a container
Container(cls, root) == IF cls.container # "" THEN Find(root, cls.container) ELSE root

\* The factory after JSS.get has returned xmldata
AfterGet(next, cls, xmldata) ==
    CASE next = "list" ->
            IF Container(cls, xmldata) = NoneEl THEN Raise("TypeError", 0, NoBody)
            ELSE _build_jss_object_list(Container(cls, xmldata), cls)
      [] next = "single" -> ReturnObject(cls, xmldata)
      [] next = "fetch" ->
            IF IsMultiple(xmldata) THEN _build_jss_object_list(xmldata, cls)
            ELSE ReturnObject(cls, xmldata)
      [] OTHER -> ReturnTree(xmldata)


----------------------------------------------------------------------------
(* The resource objects and the QuerySet (queryset.py) *)

Absent == "None"                     \* cached = None: no fetch time
FetchTimes == {"t1", "t2"}           \* datetime values: an earlier and a later fetch

\* The pool of resource objects: Computers whose names differ in case only
\* ("Alpha", "alpha") or in more, and an object of another class
ClassTable == <<"Computer", "Computer", "Computer", "Computer", "Policy", "Computer">>
NameTable == << <<98, 101, 116, 97>>,          \* "beta"
                <<65, 108, 112, 104, 97>>,     \* "Alpha"
                <<103, 97, 109, 109, 97>>,     \* "gamma"
                <<97, 108, 112, 104, 97>>,     \* "alpha"
                <<66, 101, 116, 97>>,          \* "Beta"
                <<98, 101, 116>> >>            \* "bet"
IdTable == << <<1, 0>>, <<9>>, <<2>>, <<1>>, <<3>>, <<1, 1>> >>   \* "10", "9", "2", ...
Pool == 1..NObj
Obj(i, cached) ==
    [cls |-> ClassTable[((i - 1) % Len(ClassTable)) + 1],
     id |-> IdTable[((i - 1) % Len(IdTable)) + 1],
     name |-> NameTable[((i - 1) % Len(NameTable)) + 1],
     cached |-> cached]

\* str.upper() and the comparison of two strings, character by character
UpperChar(c) == IF c >= 97 /\ c <= 122 THEN c - 32 ELSE c
UpperStr(str) == [i \in 1..Len(str) |-> UpperChar(str[i])]
StrLess(a, b) ==
    \E i \in 1..(Len(b)) :
        /\ \A j \in 1..(i - 1) : j <= Len(a) /\ a[j] = b[j]
        /\ (i > Len(a) \/ (i <= Len(a) /\ a[i] < b[i]))
        /\ i - 1 <= Len(a)

\* int(k.id)
RECURSIVE DigitsToInt(_)
DigitsToInt(d) == IF d = <<>> THEN 0 ELSE 10 * DigitsToInt(SubSeq(d, 1, Len(d) - 1)) + d[Len(d)]

\* list.sort(key=...): the stable sort, members with equal keys keep their order;
\* less[a, b] is key(a) < key(b)
StableSort(s, less) ==
    LET rank(i) == Cardinality({j \in 1..Len(s) : less[s[j], s[i]]})
                   + Cardinality({j \in 1..(i - 1) : ~less[s[j], s[i]] /\ ~less[s[i], s[j]]}) + 1
    IN [r \in 1..Len(s) |-> s[CHOOSE i \in 1..Len(s) : rank(i) = r]]

\* key=lambda k: k.name.upper()
name_key_raw(o) == o.name
name_key(o) == UpperStr(o.name)
\* key=lambda k: int(k.id)
id_key(o) == DigitsToInt(o.id)

\* QuerySet.__init__: the classes of the given objects
ClassesOf(os, objects) == {os[objects[i]].cls : i \in 1..Len(objects)}
InitAccepts_nonempty(os, objects) == Len(objects) > 0
InitAccepts(os, objects) == Cardinality(ClassesOf(os, objects)) = 1

\* for i in self: i.cached = None
invalidate_first(os, members) ==
    [o \in DOMAIN os |-> IF members # <<>> /\ o = members[1]
                         THEN [os[o] EXCEPT !.cached = Absent] ELSE os[o]]
invalidate(os, members) ==
    [o \in DOMAIN os |-> IF \E i \in 1..Len(members) : members[i] = o
                         THEN [os[o] EXCEPT !.cached = Absent] ELSE os[o]]

\* JSSObject.retrieve(): a successful retrieve refreshes the cache marker
retrieve(obj, t) == [obj EXCEPT !.cached = t]

\* for obj in self: obj.retrieve(), where the retrieve of member k raises
\* (k = 0: none raises): the members before position k have been retrieved
retrieve_before_rollback(os, members, k, t) ==
    [o \in DOMAIN os |->
        IF k = 0 /\ \E i \in 1..Len(members) : members[i] = o
        THEN retrieve(os[o], t) ELSE os[o]]
retrieve_before(os, members, k, t) ==
    [o \in DOMAIN os |->
        IF \E i \in 1..Len(members) : members[i] = o /\ (k = 0 \/ i < k)
        THEN retrieve(os[o], t) ELSE os[o]]

\* the members whose retrieve() was called, in the order of the calls
retrieve_calls(members, k) == IF k = 0 THEN members ELSE SubSeq(members, 1, k)

Last(op, args, exc, prev, pre_qs, pre_objs) ==
    [op |-> op, args |-> args, exc |-> exc, prev |-> prev,
     pre_qs |-> pre_qs, pre_objs |-> pre_objs, ret |-> <<>>]
\* the same, for an operation that returns a value
Returned(l, ret) == [l EXCEPT !.ret = ret]

\* QuerySet.__str__: the cached column of a member
\* str(item.cached if isinstance(item.cached, bool) else 'True')
IsBool(cached) == cached \in {"True", "False"}
CachedText(cached) == IF IsBool(cached) THEN cached ELSE "True"

\* STR_FMT.format(id, id_max, name, name_max, cached, cache_max): three
\* right-aligned columns of the given widths
Row(id, id_max, name, name_max, cached, cache_max) ==
    [id |-> id, id_width |-> Max({id_max, Len(id)}),
     name |-> name, name_width |-> Max({name_max, Len(name)}),
     cached |-> cached, cached_width |-> cache_max]
RowLen(row) == row.id_width + 3 + row.name_width + 3 + row.cached_width

\* QuerySet.__str__: the title, the bar, the label row, the bar, a row per member
Render(os, members, cls) ==
    LET id_max == Max({Len(os[members[i]].id) : i \in 1..Len(members)})
        name_max == Max({Len(os[members[i]].name) : i \in 1..Len(members)})
        cache_max == 6
        lbl == Row(<<73, 68>>, id_max, <<78, 97, 109, 101>>, name_max, "Cached", cache_max)
    IN [title |-> <<cls, " QuerySet">>,
        bar |-> RowLen(lbl),
        lbl |-> lbl,
        rows |-> [i \in 1..Len(members) |->
                    Row(os[members[i]].id, id_max, os[members[i]].name, name_max,
                        CachedText(os[members[i]].cached), cache_max)]]

----------------------------------------------------------------------------
(* The state after construction *)

Call(op, cls, data, subset, path) ==
    [op |-> op, cls |-> cls, data |-> data, subset |-> subset, path |-> path]
NoClass == ObjClass("", "", "", FALSE, FALSE, FALSE)
NoCall == Call("", NoClass, NoneData, NoneSubset, <<>>)

FactoryIdle ==
    /\ pc = "idle"
    /\ call = NoCall
    /\ cont = ""
    /\ http = <<>>
    /\ result = NoResult
    /\ subset_obj = NoneSubset

QuerySetNew ==
    /\ qs = <<>>
    /\ contained_class = ""
    /\ last = Last("", <<>>, "", "", <<>>, objs)

Init ==
    /\ FactoryIdle
    /\ objs = [i \in Pool |-> Obj(i, Absent)]
    /\ QuerySetNew

QuerySetInit ==
    /\ FactoryIdle
    /\ objs \in {[i \in Pool |-> Obj(i, c)] : c \in {Absent, "t1"}}
    /\ QuerySetNew

----------------------------------------------------------------------------
(* Calls of the factory and of the primitives *)

\* The caller's subset object after the call: a list given to a fetch is appended to
SubsetAfter(subset, step) ==
    IF subset.type = "list" /\ subset.truthy THEN ListSubset(step.tags) ELSE subset

Begin(step) ==
    IF step.kind = "raise"
    THEN /\ pc' = "done"
         /\ cont' = ""
         /\ http' = http
         /\ result' = Raise(step.exc, 0, NoBody)
    ELSE /\ pc' = "wait"
         /\ cont' = step.next
         /\ http' = Append(http, step.req)
         /\ result' = result

\* jss.factory.get_object(obj_class, data, subset), and the accessors
CallGetObject(SubsetDom) ==
    /\ pc = "idle"
    /\ \E cls \in Classes, data \in DataValues, subset \in SubsetDom :
        /\ call' = Call("get_object", cls, data, subset, <<>>)
        /\ subset_obj' = SubsetAfter(subset, get_object(cls, data, subset))
        /\ Begin(get_object(cls, data, subset))
    /\ UNCHANGED queryset_vars

Paths == {<<"/computers", "/id/", "1">>, <<"/computers", "/name/", "Mac Pro">>}

\* jss.get(url_path)
CallGet ==
    /\ pc = "idle"
    /\ \E path \in Paths :
        /\ call' = Call("get", NoClass, NoneData, NoneSubset, path)
        /\ Begin(RequestStep(GetRequest(path), "get", <<>>))
    /\ UNCHANGED <<subset_obj, queryset_vars>>

\* jss.post(obj_class, url_path, data)
CallPost ==
    /\ pc = "idle"
    /\ \E cls \in Classes :
        /\ call' = Call("post", cls, ElementData(Payload), NoneSubset, get_post_url(cls))
        /\ Begin(RequestStep(PostRequest(get_post_url(cls), Payload), "post", <<>>))
    /\ UNCHANGED <<subset_obj, queryset_vars>>

\* jss.put(url_path, data)
CallPut ==
    /\ pc = "idle"
    /\ \E path \in Paths :
        /\ call' = Call("put", NoClass, ElementData(Payload), NoneSubset, path)
        /\ Begin(RequestStep(PutRequest(path, Payload), "put", <<>>))
    /\ UNCHANGED <<subset_obj, queryset_vars>>

\* jss.delete(url_path)
CallDelete ==
    /\ pc = "idle"
    /\ \E path \in Paths :
        /\ call' = Call("delete", NoClass, NoneData, NoneSubset, path)
        /\ Begin(RequestStep(DeleteRequest(path), "delete", <<>>))
    /\ UNCHANGED <<subset_obj, queryset_vars>>

----------------------------------------------------------------------------
(* The responses: each resumes the blocked call *)

Received(status, body) ==
    [http EXCEPT ![Len(http)] = [@ EXCEPT !.status = status, !.body = body]]

Finish(res) ==
    /\ pc' = "done"
    /\ cont' = ""
    /\ result' = res

\* session.get returns: JSS.get, then the factory's use of the tree
GetResponse(BodyDom) ==
    /\ pc = "wait"
    /\ http[Len(http)].verb = "GET"
    /\ \E status \in Statuses, body \in BodyDom :
        /\ http' = Received(status, body)
        /\ IF get(status, body).kind = "raise"
           THEN Finish(get(status, body))
           ELSE Finish(AfterGet(cont, call.cls, get(status, body).root))
    /\ UNCHANGED <<call, subset_obj, queryset_vars>>

\* session.post returns: JSS.post, which ends in factory.get_object(obj_class, id_)
AfterPost(cls, status, body) ==
    IF IsError(status) THEN RaiseStep("JSSPostError", <<>>)
    ELSE IF SearchId(body) < 0 THEN RaiseStep("AttributeError", <<>>)
    ELSE get_object(cls, IntData(SearchId(body)), NoneSubset)

PostResponse ==
    /\ pc = "wait"
    /\ http[Len(http)].verb = "POST"
    /\ \E status \in Statuses, body \in PostBodies :
        LET step == AfterPost(call.cls, status, body)
        IN IF step.kind = "raise"
           THEN /\ http' = Received(status, body)
                /\ Finish(IF step.exc = "JSSPostError"
                          THEN error_handler("JSSPostError", status)
                          ELSE Raise(step.exc, 0, NoBody))
           ELSE /\ http' = Append(Received(status, body), step.req)
                /\ pc' = "wait"
                /\ cont' = step.next
                /\ result' = result
    /\ UNCHANGED <<call, subset_obj, queryset_vars>>

\* session.put / session.delete return
AfterPutDelete(exception_cls, status) ==
    IF IsError(status) THEN error_handler(exception_cls, status) ELSE ReturnNone

PutResponse ==
    /\ pc = "wait"
    /\ http[Len(http)].verb = "PUT"
    /\ \E status \in Statuses, body \in SmallBodies :
        /\ http' = Received(status, body)
        /\ Finish(AfterPutDelete("JSSPutError", status))
    /\ UNCHANGED <<call, subset_obj, queryset_vars>>

DeleteResponse ==
    /\ pc = "wait"
    /\ http[Len(http)].verb = "DELETE"
    /\ \E status \in Statuses, body \in SmallBodies :
        /\ http' = Received(status, body)
        /\ Finish(AfterPutDelete("JSSDeleteError", status))
    /\ UNCHANGED <<call, subset_obj, queryset_vars>>

\* The caller has the outcome; the next call starts with nothing in flight
Return ==
    /\ pc = "done"
    /\ pc' = "idle"
    /\ call' = NoCall
    /\ cont' = ""
    /\ http' = <<>>
    /\ result' = NoResult
    /\ subset_obj' = NoneSubset
    /\ UNCHANGED queryset_vars

----------------------------------------------------------------------------
(* The QuerySet operations *)

Constructed == contained_class # ""

\* QuerySet(objects): the constructor runs once, on the objects as they are
QuerySet ==
    /\ last.op = ""
    /\ \E objects \in SeqsUpTo(Pool, MaxLen) :
        IF InitAccepts(objs, objects)
        THEN /\ qs' = objects
             /\ contained_class' = objs[objects[1]].cls
             /\ last' = Last("__init__", objects, "", last.op, qs, objs)
        ELSE /\ UNCHANGED <<qs, contained_class>>
             /\ last' = Last("__init__", objects, "ValueError", last.op, qs, objs)
    /\ UNCHANGED <<objs, factory_vars>>

\* QuerySet.sort()
sort ==
    /\ Constructed
    /\ qs' = StableSort(qs, [a, b \in Pool |-> id_key(objs[a]) < id_key(objs[b])])
    /\ last' = Last("sort", <<>>, "", last.op, qs, objs)
    /\ UNCHANGED <<objs, contained_class, factory_vars>>

\* QuerySet.sort_by_name()
sort_by_name ==
    /\ Constructed
    /\ qs' = StableSort(qs, [a, b \in Pool |-> StrLess(name_key(objs[a]), name_key(objs[b]))])
    /\ last' = Last("sort_by_name", <<>>, "", last.op, qs, objs)
    /\ UNCHANGED <<objs, contained_class, factory_vars>>

\* QuerySet.retrieve_all(): the retrieve of member k fails (k = 0: none does);
\* the record keeps the members whose retrieve() was called
retrieve_all ==
    /\ Constructed
    /\ \E k \in 0..Len(qs) :
        /\ objs' = retrieve_before(objs, qs, k, "t2")
        /\ last' = Last("retrieve_all", retrieve_calls(qs, k),
                        IF k > 0 THEN "JSSGetError" ELSE "", last.op, qs, objs)
    /\ UNCHANGED <<qs, contained_class, factory_vars>>

\* QuerySet.invalidate()
Invalidate ==
    /\ Constructed
    /\ objs' = invalidate(objs, qs)
    /\ last' = Last("invalidate", <<>>, "", last.op, qs, objs)
    /\ UNCHANGED <<qs, contained_class, factory_vars>>

\* str(queryset)
__str__ ==
    /\ Constructed
    /\ last' = IF qs = <<>>
               THEN Last("__str__", <<>>, "ValueError", last.op, qs, objs)
               ELSE Returned(Last("__str__", <<>>, "", last.op, qs, objs),
                             Render(objs, qs, contained_class))
    /\ UNCHANGED <<objs, qs, contained_class, factory_vars>>

----------------------------------------------------------------------------
(* The list operations a QuerySet inherits: class QuerySet(list) *)

\* The record of a list operation: its arguments, its exception, the members
\* before it (the operation before it is kept by the QuerySet's own methods only)
Mutation(op, args, exc) == Last(op, args, exc, "", qs, objs)

\* The objects given to the list mutations: one of the class of the Computers
\* and one of another class
NewMembers == {4, 5}

\* list.insert(i, x): x goes before position i (0-based), at the end when i >= len
InsertAt(members, i, o) ==
    SubSeq(members, 1, Min({i, Len(members)})) \o <<o>>
        \o SubSeq(members, Min({i, Len(members)}) + 1, Len(members))

\* queryset.append(obj)
append ==
    /\ Constructed
    /\ Len(qs) < MaxMembers
    /\ \E o \in NewMembers :
        /\ qs' = Append(qs, o)
        /\ last' = Mutation("append", <<o>>, "")
    /\ UNCHANGED <<objs, contained_class, factory_vars>>

\* queryset.extend(objects)
extend ==
    /\ Constructed
    /\ \E objects \in SeqsUpTo(NewMembers, MaxMembers - Len(qs)) :
        /\ qs' = qs \o objects
        /\ last' = Mutation("extend", objects, "")
    /\ UNCHANGED <<objs, contained_class, factory_vars>>

\* queryset.insert(i, obj)
insert ==
    /\ Constructed
    /\ Len(qs) < MaxMembers
    /\ \E i \in 0..(Len(qs) + 1), o \in NewMembers :
        /\ qs' = InsertAt(qs, i, o)
        /\ last' = Mutation("insert", <<i, o>>, "")
    /\ UNCHANGED <<objs, contained_class, factory_vars>>

\* queryset[i] = obj: IndexError when i is not a position of the list
__setitem__ ==
    /\ Constructed
    /\ \E i \in 0..Len(qs), o \in NewMembers :
        IF i < Len(qs)
        THEN /\ qs' = [qs EXCEPT ![i + 1] = o]
             /\ last' = Mutation("__setitem__", <<i, o>>, "")
        ELSE /\ qs' = qs
             /\ last' = Mutation("__setitem__", <<i, o>>, "IndexError")
    /\ UNCHANGED <<objs, contained_class, factory_vars>>

\* the list without the member at position i (0-based)
RemoveAt(members, i) == SubSeq(members, 1, i) \o SubSeq(members, i + 2, Len(members))

\* members[i:j] = objects, for 0 <= i <= j <= len
ReplaceSlice(members, i, j, objects) ==
    SubSeq(members, 1, i) \o objects \o SubSeq(members, j + 1, Len(members))

\* members * n
RECURSIVE Repeat(_, _)
Repeat(members, n) == IF n <= 0 THEN <<>> ELSE members \o Repeat(members, n - 1)

\* queryset.pop(i), queryset.pop() (i = -1): removes and returns the member at
\* position i; IndexError on an empty list or when i is not a position
pop ==
    /\ Constructed
    /\ \E i \in -1..Len(qs) :
        LET at == IF i = -1 THEN Len(qs) - 1 ELSE i
        IN IF at >= 0 /\ at < Len(qs)
           THEN /\ qs' = RemoveAt(qs, at)
                /\ last' = Returned(Mutation("pop", <<i>>, ""), <<qs[at + 1]>>)
           ELSE /\ qs' = qs
                /\ last' = Mutation("pop", <<i>>, "IndexError")
    /\ UNCHANGED <<objs, contained_class, factory_vars>>

\* queryset.remove(obj): removes the first occurrence; ValueError when there is none
remove ==
    /\ Constructed
    /\ \E o \in Pool :
        LET hits == {i \in 1..Len(qs) : qs[i] = o}
        IN IF hits # {}
           THEN /\ qs' = RemoveAt(qs, Min(hits) - 1)
                /\ last' = Mutation("remove", <<o>>, "")
           ELSE /\ qs' = qs
                /\ last' = Mutation("remove", <<o>>, "ValueError")
    /\ UNCHANGED <<objs, contained_class, factory_vars>>

\* del queryset[i]: IndexError when i is not a position of the list
__delitem__ ==
    /\ Constructed
    /\ \E i \in 0..Len(qs) :
        IF i < Len(qs)
        THEN /\ qs' = RemoveAt(qs, i)
             /\ last' = Mutation("__delitem__", <<i>>, "")
        ELSE /\ qs' = qs
             /\ last' = Mutation("__delitem__", <<i>>, "IndexError")
    /\ UNCHANGED <<objs, contained_class, factory_vars>>

\* del queryset[i:j]
__delslice__ ==
    /\ Constructed
    /\ \E i \in 0..Len(qs), j \in 0..Len(qs) :
        /\ i <= j
        /\ qs' = ReplaceSlice(qs, i, j, <<>>)
        /\ last' = Mutation("__delslice__", <<i, j>>, "")
    /\ UNCHANGED <<objs, contained_class, factory_vars>>

\* queryset[i:j] = objects
__setslice__ ==
    /\ Constructed
    /\ \E i \in 0..Len(qs), j \in 0..Len(qs) :
        /\ i <= j
        /\ \E objects \in SeqsUpTo(NewMembers, Min({MaxList, MaxMembers - Len(qs) + (j - i)})) :
            /\ qs' = ReplaceSlice(qs, i, j, objects)
            /\ last' = Mutation("__setslice__", <<i, j>> \o objects, "")
    /\ UNCHANGED <<objs, contained_class, factory_vars>>

\* queryset += objects
__iadd__ ==
    /\ Constructed
    /\ \E objects \in SeqsUpTo(NewMembers, MaxMembers - Len(qs)) :
        /\ qs' = qs \o objects
        /\ last' = Mutation("__iadd__", objects, "")
    /\ UNCHANGED <<objs, contained_class, factory_vars>>

\* queryset *= n
__imul__ ==
    /\ Constructed
    /\ \E n \in 0..MaxMembers :
        /\ Len(qs) * n <= MaxMembers
        /\ qs' = Repeat(qs, n)
        /\ last' = Mutation("__imul__", <<n>>, "")
    /\ UNCHANGED <<objs, contained_class, factory_vars>>

\* queryset.reverse()
reverse ==
    /\ Constructed
    /\ qs' = [i \in 1..Len(qs) |-> qs[Len(qs) + 1 - i]]
    /\ last' = Mutation("reverse", <<>>, "")
    /\ UNCHANGED <<objs, contained_class, factory_vars>>

----------------------------------------------------------------------------
(* Specifications *)

\* The factory and the primitives, over the documents the server may send
Next ==
    \/ CallGetObject(SmallSubsets)
    \/ CallGet
    \/ CallPost
    \/ CallPut
    \/ CallDelete
    \/ GetResponse(Bodies)
    \/ PostResponse
    \/ PutResponse
    \/ DeleteResponse
    \/ Return

Spec == Init /\ [][Next]_vars

\* The factory over the subset arguments
SubsetNext ==
    \/ CallGetObject(Subsets)
    \/ GetResponse(SmallBodies)
    \/ PostResponse
    \/ Return

SubsetSpec == Init /\ [][SubsetNext]_vars

\* The QuerySet
QuerySetNext ==
    \/ QuerySet
    \/ sort
    \/ sort_by_name
    \/ retrieve_all
    \/ Invalidate

QuerySetSpec == QuerySetInit /\ [][QuerySetNext]_vars

\* The QuerySet used as the list it is
ListNext ==
    \/ QuerySet
    \/ append
    \/ extend
    \/ insert
    \/ __setitem__
    \/ pop
    \/ remove
    \/ __delitem__
    \/ __delslice__
    \/ __setslice__
    \/ __iadd__
    \/ __imul__
    \/ reverse
    \/ sort
    \/ sort_by_name
    \/ __str__

ListSpec == Init /\ [][ListNext]_vars

\* The QuerySet's rendering, over the cache markers of its members
RenderNext ==
    \/ QuerySet
    \/ pop
    \/ retrieve_all
    \/ Invalidate
    \/ __str__

RenderSpec == QuerySetInit /\ [][RenderNext]_vars


----------------------------------------------------------------------------
(* The claims *)

GetObjectCall == call.op = "get_object"
SubsetAccepted == ~NormalizeSubset(call.subset).raises
MethodNotAllowed == Raise("JSSMethodNotAllowedError", 0, NoBody)
Succeeded(r) == r.status > 0 /\ r.status < 400 /\ r.body.wellformed
HasSizeChild(e) == \E i \in 1..Len(e.kids) : e.kids[i].tag = "size"

\* C1 as stated: a call with no query argument on a type with can_list false,
\* whatever its other flags, raises Method-not-allowed and issues no HTTP request
C1_AsStated ==
    (GetObjectCall /\ call.data.type = "NoneType" /\ SubsetAccepted /\ ~call.cls.can_list)
        => /\ http = <<>>
           /\ pc = "done"
           /\ result = MethodNotAllowed

\* C1, amended: a call with no query argument (subset absent or well-formed)
\* raises Method-not-allowed without any HTTP request exactly when the type has
\* can_get false; a type with can_get true and can_list false is sent one GET of
\* the type's URL and the call returns a single object built from the response
C1_NoArgumentNeedsGet ==
    (GetObjectCall /\ call.data.type = "NoneType" /\ SubsetAccepted)
        => IF ~call.cls.can_get
           THEN http = <<>> /\ pc = "done" /\ result = MethodNotAllowed
           ELSE /\ Len(http) = 1
                /\ http[1].verb = "GET"
                /\ result # MethodNotAllowed
                /\ ~call.cls.can_list =>
                    /\ http[1].path = <<call.cls.url>>
                    /\ (pc = "done" /\ Succeeded(http[1])) =>
                        /\ result.kind = "object"
                        /\ result.cls = call.cls.name
                        /\ result.root = http[1].body.root

C1_Witness ==
    /\ GetObjectCall /\ call.data.type = "NoneType"
    /\ call.cls.can_list /\ ~call.cls.can_get /\ call.cls.can_post
    /\ pc = "done" /\ result = MethodNotAllowed /\ http = <<>>

\* C2: a call with a new-object payload on a type with can_post false issues no
\* HTTP request, and raises Method-not-allowed once the subset has passed the
\* normalisation that precedes the dispatch
C2_CreateRefusedLocally ==
    (GetObjectCall /\ call.data.type = "Element" /\ ~call.cls.can_post)
        => /\ http = <<>>
           /\ pc = "done"
           /\ result.kind = "raise"
           /\ SubsetAccepted => result = MethodNotAllowed

C2_Witness ==
    /\ GetObjectCall /\ call.data = ElementData(Payload)
    /\ ~call.cls.can_post /\ call.cls.can_get /\ call.cls.can_list
    /\ pc = "done" /\ result = MethodNotAllowed /\ http = <<>>

\* C3: a fetch by identifier or by name on a type with can_get issues one GET;
\* from a parsed response it returns a collection if and only if the root has a
\* direct "size" child, and otherwise a single object of the requested type
C3_FetchReturnsByShape ==
    (GetObjectCall /\ call.data.type \in {"int", "str"} /\ SubsetAccepted /\ call.cls.can_get)
        => /\ Len(http) = 1
           /\ http[1].verb = "GET"
           /\ (pc = "done" /\ Succeeded(http[1])) =>
                /\ result.kind \in {"list", "object"}
                /\ result.kind = "list" <=> HasSizeChild(http[1].body.root)
                /\ result.cls = call.cls.name
                /\ result.kind = "object" => result.root = http[1].body.root

C3_Witness ==
    /\ GetObjectCall /\ call.data = IntData(1) /\ pc = "done"
    /\ Len(http) = 1
    /\ http[1].body = Body(TRUE, Root(<<Item1, SizeEl>>))
    /\ result.kind = "list"

\* C4: a listing holds one record per child whose tag is not "size", in the
\* order of the response; the children are those of the container element when
\* the listed type declares a container tag
ListedElement ==
    IF call.data.type = "NoneType" /\ call.cls.container # ""
    THEN Find(http[Len(http)].body.root, call.cls.container)
    ELSE http[Len(http)].body.root
NonSize(e) == {i \in 1..Len(e.kids) : e.kids[i].tag # "size"}
NthNonSize(e, n) == CHOOSE i \in NonSize(e) : Cardinality({j \in NonSize(e) : j <= i}) = n

C4_ListingSkipsSize ==
    (pc = "done" /\ result.kind = "list")
        => /\ Len(result.items) = Cardinality(NonSize(ListedElement))
           /\ \A n \in 1..Len(result.items) :
                result.items[n] = ListData(ListedElement.kids[NthNonSize(ListedElement, n)])

C4_Witness ==
    /\ GetObjectCall /\ call.data.type = "NoneType" /\ call.cls.container = "users"
    /\ pc = "done"
    /\ Len(http) = 1
    /\ http[1].body = Body(TRUE, Root(<<SizeEl, El("users", "", <<SizeEl, Item1>>)>>))
    /\ result.kind = "list"
    /\ Len(result.items) = 1


\* C5: a fetch by identifier or name with a non-empty subset, given as a list or
\* as an "&"-delimited string, requests the instance URL followed by "/subset/"
\* and the tags joined by "&": every tag the caller gave, in the caller's order,
\* and "general", appended once when the caller omitted it and not added when
\* the caller gave it
GivenTags ==
    IF call.subset.type = "list" THEN call.subset.tags ELSE Split(call.subset.str)
Count(seq, x) == Cardinality({i \in 1..Len(seq) : seq[i] = x})
InstanceUrl ==
    IF call.data.type = "int"
    THEN <<call.cls.url, "/id/", NumStr[call.data.ival]>>
    ELSE <<call.cls.url, "/name/", call.data.sval>>
RequestedTags == Split(SubSeq(http[1].path, Len(InstanceUrl) + 2, Len(http[1].path)))

C5_SubsetUrlForcesGeneral ==
    (GetObjectCall /\ call.data.type \in {"int", "str"} /\ call.cls.can_get
        /\ call.subset.type \in {"list", "str"} /\ call.subset.truthy)
        => /\ Len(http) = 1
           /\ http[1].verb = "GET"
           /\ SubSeq(http[1].path, 1, Len(InstanceUrl) + 1) = InstanceUrl \o <<"/subset/">>
           /\ http[1].path = InstanceUrl \o <<"/subset/">> \o Join(RequestedTags)
           /\ SubSeq(RequestedTags, 1, Len(GivenTags)) = GivenTags
           /\ Count(RequestedTags, <<"general">>) >= 1
           /\ IF Count(GivenTags, <<"general">>) = 0
              THEN RequestedTags = GivenTags \o << <<"general">> >>
              ELSE RequestedTags = GivenTags

C5_Witness ==
    /\ GetObjectCall /\ call.data = IntData(1) /\ call.cls.name = "Computer"
    /\ call.subset = StrSubset(<<"purchasing", "&", "purchasing">>)
    /\ Len(http) = 1
    /\ http[1].path = <<"/computers", "/id/", "1", "/subset/",
                        "purchasing", "&", "purchasing", "&", "general">>


\* C6: a create on a type with can_post issues one POST of the payload to the
\* creation URL; when the status is below 400 and the body carries <id>N</id>,
\* exactly one GET of the instance URL of the first such N follows, and the call
\* returns what is built from that GET's response
FirstIdText(body) ==
    LET doc == PreOrder(body.root)
        ids == {i \in 1..Len(doc) :
                   doc[i].tag = "id" /\ doc[i].kids = <<>> /\ doc[i].text \in {"0", "1", "2", "3"}}
    IN IF ids = {} THEN "" ELSE doc[Min(ids)].text
Created(r) == r.status > 0 /\ r.status < 400 /\ FirstIdText(r.body) # ""
RefetchFollows ==
    /\ Len(http) = 2
    /\ http[2].verb = "GET"
    /\ http[2].path = <<call.cls.url, "/id/", FirstIdText(http[1].body)>>
    /\ (pc = "done" /\ Succeeded(http[2])) =>
        /\ result.kind \in {"object", "list"}
        /\ result.cls = call.cls.name
        /\ ~HasSizeChild(http[2].body.root) =>
            result.kind = "object" /\ result.root = http[2].body.root
PostIssued ==
    /\ Len(http) >= 1
    /\ http[1].verb = "POST"
    /\ http[1].path = <<call.cls.url, "/id/", "0">>
    /\ http[1].url = BaseUrl \o http[1].path
    /\ http[1].data = tostring(call.data.elem)

C6_CreateThenRefetch ==
    (GetObjectCall /\ call.data.type = "Element" /\ SubsetAccepted /\ call.cls.can_post)
        => /\ PostIssued
           /\ Created(http[1]) => RefetchFollows

\* C6 on the types that permit GET as well as creation: the same statement holds
C6_CreateThenRefetchWithGet ==
    (GetObjectCall /\ call.data.type = "Element" /\ SubsetAccepted
        /\ call.cls.can_post /\ call.cls.can_get)
        => /\ PostIssued
           /\ Created(http[1]) => RefetchFollows
           /\ (Len(http) = 2 \/ (pc = "done" /\ result.kind # "raise")) => Created(http[1])

\* C7: a response with status 400 or above ends the call: it is the last
\* request of the call, and the call raises the failure kind of the request's
\* verb and returns nothing
FailureKind(verb) ==
    CASE verb = "GET" -> "JSSGetError"
      [] verb = "POST" -> "JSSPostError"
      [] verb = "PUT" -> "JSSPutError"
      [] verb = "DELETE" -> "JSSDeleteError"

C7_ErrorStatusRaises ==
    \A i \in 1..Len(http) :
        http[i].status >= 400
            => /\ i = Len(http)
               /\ pc = "done"
               /\ result.kind = "raise"
               /\ result.exc = FailureKind(http[i].verb)
               /\ result.status = http[i].status

C7_Witness ==
    /\ GetObjectCall /\ call.data.type = "Element"
    /\ Len(http) = 1
    /\ http[1].verb = "POST" /\ http[1].status = 400
    /\ FirstIdText(http[1].body) = "1"
    /\ pc = "done" /\ result.exc = "JSSPostError"

\* C8: QuerySet construction raises ValueError exactly when the sequence is
\* empty or holds members of two or more classes, and then changes no object
\* and no QuerySet; otherwise it keeps the members in the given order and
\* records their class as contained_class; no object is retrieved or changed
SingleClass(objects) ==
    /\ Len(objects) >= 1
    /\ \A i, j \in 1..Len(objects) : last.pre_objs[objects[i]].cls = last.pre_objs[objects[j]].cls

C8_ConstructionSingleClass ==
    last.op = "__init__"
        => /\ objs = last.pre_objs
           /\ IF SingleClass(last.args)
              THEN /\ last.exc = ""
                   /\ qs = last.args
                   /\ contained_class = objs[last.args[1]].cls
              ELSE /\ last.exc = "ValueError"
                   /\ qs = last.pre_qs
                   /\ contained_class = ""

C8_Witness ==
    /\ last.op = "__init__"
    /\ last.args = <<1, 5, 2>>
    /\ last.exc = "ValueError"
    /\ objs[1].cached = "t1"
    /\ objs = last.pre_objs

\* C9: after invalidate() every member's cache marker is absent, whatever it
\* was; the members and their order are unchanged; a second invalidate() right
\* after the first changes nothing
C9_InvalidateClearsMarkers ==
    last.op = "invalidate"
        => /\ \A i \in 1..Len(qs) : objs[qs[i]].cached = Absent
           /\ qs = last.pre_qs
           /\ last.prev = "invalidate" => objs = last.pre_objs

C9_Witness ==
    /\ last.op = "invalidate"
    /\ Len(qs) = 3
    /\ last.pre_objs[qs[1]].cached = "t2"
    /\ last.pre_objs[qs[2]].cached = "t1"
    /\ \A i \in 1..Len(qs) : objs[qs[i]].cached = Absent

\* C10: sort_by_name() leaves the names non-decreasing under case-insensitive
\* comparison, the result is a permutation of the members before the call,
\* members whose names are equal ignoring case keep their relative order, and
\* no cache marker (no object) changes
SameIgnoringCase(a, b) == UpperStr(a) = UpperStr(b)
LeqIgnoringCase(a, b) == ~StrLess(UpperStr(b), UpperStr(a))
WithNameLike(seq, o) == SelectSeq(seq, LAMBDA m : SameIgnoringCase(objs[m].name, objs[o].name))

C10_SortByNameIgnoresCase ==
    last.op = "sort_by_name"
        => /\ \A i, j \in 1..Len(qs) :
                i < j => LeqIgnoringCase(objs[qs[i]].name, objs[qs[j]].name)
           /\ Len(qs) = Len(last.pre_qs)
           /\ \A o \in Pool : Count(qs, o) = Count(last.pre_qs, o)
           /\ \A o \in Pool : WithNameLike(qs, o) = WithNameLike(last.pre_qs, o)
           /\ objs = last.pre_objs

C10_Witness ==
    /\ last.op = "sort_by_name"
    /\ last.pre_qs = <<1, 2, 3>>
    /\ qs = <<2, 1, 3>>

\* C11 as stated: the subset is normalised before anything else; a subset that
\* is neither absent, a list nor a string, whether empty/zero or not, raises
\* Invalid-input (TypeError) with no HTTP request, and a subset that is absent,
\* a list or a string never does
C11_SubsetNormalisedFirst ==
    GetObjectCall
        => IF call.subset.type = "other"
           THEN http = <<>> /\ pc = "done" /\ result = Raise("TypeError", 0, NoBody)
           ELSE result = Raise("TypeError", 0, NoBody) => http # <<>>

\* C11 on the subsets that are true in a condition (non-zero, non-empty): the
\* statement holds, and an absent, empty or zero subset of any type is no subset
C11_TruthySubsetNormalised ==
    GetObjectCall
        => /\ (call.subset.type = "other" /\ call.subset.truthy)
                => http = <<>> /\ pc = "done" /\ result = Raise("TypeError", 0, NoBody)
           /\ ~call.subset.truthy
                => /\ subset_obj = call.subset
                   /\ Len(http) >= 1 => http[1].path \in {get_url(call.cls, call.data),
                                                          get_post_url(call.cls)}

\* C12 as stated: a factory call that ends in Method-not-allowed has issued no
\* HTTP request at any point, the create path and its re-fetch included
C12_RefusedBeforeAnyRequest ==
    (GetObjectCall /\ pc = "done" /\ result = MethodNotAllowed) => http = <<>>

\* C12 on the list and fetch paths, and on a create for a type that permits GET
C12_RefusedBeforeAnyRequestWithGet ==
    (GetObjectCall /\ pc = "done" /\ result = MethodNotAllowed
        /\ (call.data.type = "Element" => call.cls.can_get))
        => http = <<>>

\* C13 as stated: in every reachable state of a QuerySet, after any sequence of
\* its operations and of the list mutations it inherits, every member has the
\* class recorded as contained_class at construction
C13_SingleType ==
    Constructed => \A i \in 1..Len(qs) : objs[qs[i]].cls = contained_class

\* C14 as stated: the cached column of a member's row reads "True" exactly when
\* the member's cache marker is not absent; an absent marker (never fetched, or
\* cleared by invalidate()) reads otherwise
C14_CachedColumn ==
    (last.op = "__str__" /\ last.exc = "")
        => /\ Len(last.ret.rows) = Len(qs)
           /\ \A i \in 1..Len(qs) :
                /\ last.ret.rows[i].id = objs[qs[i]].id
                /\ last.ret.rows[i].name = objs[qs[i]].name
                /\ last.ret.rows[i].cached = "True" <=> objs[qs[i]].cached # Absent

\* C15: retrieve_all() calls retrieve() on the members one at a time in list
\* order; when the retrieve of the k-th member fails the failure reaches the
\* caller, the members before it stay retrieved and no member after it is
\* retrieved; when none fails every member was retrieved, once per position;
\* membership and order are unchanged either way, and no other object changes
Before(seq, k) == {seq[i] : i \in 1..(k - 1)}

C15_RetrieveAllInOrder ==
    last.op = "retrieve_all"
        => /\ qs = last.pre_qs
           /\ last.args = SubSeq(qs, 1, Len(last.args))
           /\ IF last.exc = ""
              THEN /\ last.args = qs
                   /\ \A o \in Pool :
                        objs[o] = IF o \in Before(qs, Len(qs) + 1)
                                  THEN [last.pre_objs[o] EXCEPT !.cached = "t2"]
                                  ELSE last.pre_objs[o]
              ELSE /\ last.exc = "JSSGetError"
                   /\ Len(last.args) >= 1
                   /\ \A o \in Pool :
                        objs[o] = IF o \in Before(qs, Len(last.args))
                                  THEN [last.pre_objs[o] EXCEPT !.cached = "t2"]
                                  ELSE last.pre_objs[o]

C15_Witness ==
    /\ last.op = "retrieve_all"
    /\ last.exc = "JSSGetError"
    /\ qs = <<3, 1, 2>>
    /\ last.args = <<3, 1>>
    /\ last.pre_objs[3].cached = Absent
    /\ objs[3].cached = "t2"
    /\ objs[1].cached = Absent
    /\ objs[2].cached = Absent

\* C16: with a well-formed or absent subset, a query argument that is neither
\* absent, an integer, text nor an XML element raises Invalid-input (ValueError)
\* with no HTTP request; every other argument takes the one path of its type:
\* absent - a GET of the type's URL; integer or text - a GET of the instance
\* URL; element - a POST to the creation URL; a call that issued no request was
\* refused with Method-not-allowed
InvalidInput == Raise("ValueError", 0, NoBody)
FirstRequestOfType ==
    CASE call.data.type = "NoneType" ->
            /\ http[1].verb = "GET"
            /\ http[1].path \in {<<call.cls.url>>, <<call.cls.url, "/subset/basic">>}
            /\ Len(http) = 1
      [] call.data.type \in {"int", "str"} ->
            /\ http[1].verb = "GET"
            /\ SubSeq(http[1].path, 1, 3) = InstanceUrl
            /\ Len(http) = 1
      [] call.data.type = "Element" ->
            /\ http[1].verb = "POST"
            /\ http[1].path = <<call.cls.url, "/id/", "0">>
            /\ http[1].data = tostring(call.data.elem)

C16_PathByArgumentType ==
    (GetObjectCall /\ SubsetAccepted)
        => IF call.data.type \notin {"NoneType", "int", "str", "Element"}
           THEN http = <<>> /\ pc = "done" /\ result = InvalidInput
           ELSE /\ result # InvalidInput
                /\ IF http = <<>>
                   THEN pc = "done" /\ result = MethodNotAllowed
                   ELSE FirstRequestOfType

C16_Witness ==
    /\ GetObjectCall /\ call.data = OtherData
    /\ call.subset = ListSubset(<< <<"purchasing">> >>)
    /\ call.cls.can_list /\ call.cls.can_get /\ call.cls.can_post
    /\ pc = "done" /\ result = InvalidInput /\ http = <<>>

\* C17 as stated: every failure that leaves a primitive (get, post, put, delete)
\* is one of the typed failure kinds, for every status and body; a GET whose
\* body is not well-formed XML raises a Get failure carrying the raw body; a
\* POST with status below 400 and no <id>N</id> is a typed failure too
PrimitiveCall == call.op \in {"get", "post", "put", "delete"}
TypedKinds ==
    {"JSSGetError", "JSSPostError", "JSSPutError", "JSSDeleteError", "JSSMethodNotAllowedError"}

C17_TypedFailures ==
    (PrimitiveCall /\ pc = "done")
        => /\ result.kind = "raise" => result.exc \in TypedKinds
           /\ (call.op = "get" /\ http[1].status < 400 /\ ~http[1].body.wellformed)
                => result = Raise("JSSGetError", 0, http[1].body)
           /\ (call.op = "post" /\ http[1].status < 400 /\ FirstIdText(http[1].body) = "")
                => result.kind = "raise" /\ result.exc \in TypedKinds

\* C17 without the POST that is answered without an identifier: the failures
\* are typed, and the parse failure of a GET carries the raw body
C17_TypedFailuresWithId ==
    (PrimitiveCall /\ pc = "done"
        /\ ~(call.op = "post" /\ http[1].status < 400 /\ FirstIdText(http[1].body) = ""))
        => /\ result.kind = "raise" => result.exc \in TypedKinds
           /\ (call.op = "get" /\ http[1].status < 400 /\ ~http[1].body.wellformed)
                => result = Raise("JSSGetError", 0, http[1].body)

\* C18 as stated: every call of a primitive issues exactly one HTTP request,
\* for every status, and completes only after its response was received
AllReceived == \A i \in 1..Len(http) : http[i].status > 0

C18_OneRoundTrip ==
    PrimitiveCall => Len(http) = 1 /\ (pc = "done" => AllReceived)

\* C18, amended: get, put and delete issue exactly one request; post issues one
\* POST, followed by exactly one GET of the new object's instance URL when the
\* POST's status is below 400, its body carries <id>N</id> and the type permits
\* GET, and by no request otherwise; a call completes only after the response
\* to each of its requests was received
C18_RoundTripsPerPrimitive ==
    PrimitiveCall
        => /\ pc = "done" => AllReceived
           /\ IF call.op = "post"
              THEN /\ Len(http) \in {1, 2}
                   /\ http[1].verb = "POST"
                   /\ Len(http) = 2 <=> (Created(http[1]) /\ call.cls.can_get)
                   /\ Len(http) = 2 =>
                        /\ http[2].verb = "GET"
                        /\ http[2].path = <<call.cls.url, "/id/", FirstIdText(http[1].body)>>
              ELSE /\ Len(http) = 1
                   /\ http[1].verb = (CASE call.op = "get" -> "GET" [] call.op = "put" -> "PUT" [] call.op = "delete" -> "DELETE")
                   /\ http[1].path = call.path

C18_Witness ==
    /\ call.op = "post" /\ pc = "done"
    /\ Len(http) = 2
    /\ http[1].verb = "POST" /\ http[1].status = 200
    /\ http[2].verb = "GET" /\ http[2].status = 200
    /\ result.kind = "object"

====
